---- MODULE Spec2Model ----
(***************************************************************************)
(* Lineup reconstruction of wnba-playing-time (src/utils.py).              *)
(*                                                                         *)
(*   play_clock_to_seconds    clock string and period -> seconds           *)
(*   process_pbp_data         sort, then one pass over the events that     *)
(*                            keeps the on-court lists and the time bank,  *)
(*                            then the interval table sub_df               *)
(*   assign_players_on_court  one lineup row per event from sub_df         *)
(*                                                                         *)
(* The specifications share the variables.  ClockSpec applies             *)
(* play_clock_to_seconds to one row.  SortSpec runs the first two          *)
(* statements of process_pbp_data (lines 62-63) on small raw logs of any   *)
(* period.  Spec runs the event loop, the interval table and the           *)
(* assignment pass on ordered streams drawn from a reference log; GameSpec *)
(* and OvertimeSpec run them on one feed each.                             *)
(***************************************************************************)
EXTENDS Integers, Sequences, FiniteSets, TLC

VARIABLES
    pc,               \* position in the pipeline
    pbp_df,           \* the play-by-play frame (rows in processing order)
    home_on_court,    \* list of player ids
    visitor_on_court, \* list of player ids
    period,           \* the pass's own period counter
    time_on_court,    \* player id -> time-bank record
    sub_df,           \* interval table, empty until built
    player_df,        \* lineup rows accumulated by the assignment pass
    returned,         \* the table assign_players_on_court returns (pc = "done")
    error,            \* the exception that ended the run, or NoError
    before            \* history: on-court lists seen by each processed event

vars == <<pc, pbp_df, home_on_court, visitor_on_court, period, time_on_court,
          sub_df, player_df, returned, error, before>>

-----------------------------------------------------------------------------
(* Values *)

\* None / NaN in an id column of a row (the ids of the rosters and of the
\* feeds are positive), and the game_time_remaining of a row before line 62
Null == -1

\* the time_in field of the time bank: <<>> is None and <<t>> is the game
\* time t, so that None is no game time, whatever the clocks
NoTime == <<>>
Since(t) == <<t>>

home_id == 100
visitor_id == 200
home_roster == <<1, 2, 3, 4, 5, 6>>
visitor_roster == <<11, 12, 13, 14, 15>>
\* a player id that is on neither roster
Stranger == 99
game_id == 7

\* the exception that ends a run; NoError while none was raised
NoError == [kind |-> "none", line |-> 0, team_id |-> Null, index |-> Null]

Raise(kind, line) == [kind |-> kind, line |-> line, team_id |-> Null, index |-> Null]

\* x in list
In(x, list) == \E i \in 1..Len(list) : list[i] = x

Range(list) == {list[i] : i \in 1..Len(list)}

\* list.remove(x): drops the first occurrence
RECURSIVE ListRemove(_, _)
ListRemove(list, x) ==
    IF list = <<>> THEN <<>>
    ELSE IF Head(list) = x THEN Tail(list)
    ELSE <<Head(list)>> \o ListRemove(Tail(list), x)

RECURSIVE SumSeq(_)
SumSeq(s) == IF s = <<>> THEN 0 ELSE Head(s) + SumSeq(Tail(s))

-----------------------------------------------------------------------------
(* Clock strings: a string is the sequence of the code points of its
   characters, "5:30" is <<53, 58, 51, 48>> *)

\* the printable ASCII characters, from code point 32 on, the quote (34), the
\* backslash (92) and the backquote (96) by name
Ascii ==
    <<" ", "!", "quote", "#", "$", "%", "&", "'", "(", ")", "*", "+",
      ",", "-", ".", "/", "0", "1", "2", "3", "4", "5", "6", "7",
      "8", "9", ":", ";", "<", "=", ">", "?", "@", "A", "B", "C",
      "D", "E", "F", "G", "H", "I", "J", "K", "L", "M", "N", "O",
      "P", "Q", "R", "S", "T", "U", "V", "W", "X", "Y", "Z", "[",
      "backslash", "]", "^", "_", "backquote", "a", "b", "c", "d", "e", "f", "g",
      "h", "i", "j", "k", "l", "m", "n", "o", "p", "q", "r", "s",
      "t", "u", "v", "w", "x", "y", "z", "{", "|", "}", "~">>

\* the code point of an ASCII character
Ord(c) == 31 + CHOOSE i \in 1..Len(Ascii) : Ascii[i] = c

\* the string of a sequence of ASCII characters
Str(chars) == [i \in 1..Len(chars) |-> Ord(chars[i])]

\* code point of "0" for every run of ten decimal digits past ASCII (the
\* characters with a decimal value in Unicode 14, as Python 3.11 has them)
DigitZeros ==
    {1632, 1776, 1984, 2406, 2534, 2662, 2790, 2918, 3046, 3174, 3302,
     3430, 3558, 3664, 3792, 3872, 4160, 4240, 6112, 6160, 6470, 6608,
     6784, 6800, 6992, 7088, 7232, 7248, 42528, 43216, 43264, 43472, 43504,
     43600, 44016, 65296, 66720, 68912, 69734, 69872, 69942, 70096, 70384,
     70736, 70864, 71248, 71360, 71472, 71904, 72016, 72784, 73040, 73120,
     92768, 92864, 93008, 120782, 120792, 120802, 120812, 120822, 123200,
     123632, 125264, 130032}

IsDigit(c) == c \in 48..57 \/ \E z \in DigitZeros : c \in z..(z + 9)

DigitValue(c) ==
    IF c \in 48..57 THEN c - 48
    ELSE c - (CHOOSE z \in DigitZeros : c \in z..(z + 9))

DigitChar(d) == 48 + d

\* the text M:SS of a clock of m minutes and s whole seconds, as the feed
\* writes it
ClockString(m, s) ==
    (IF m >= 10 THEN <<DigitChar(m \div 10)>> ELSE <<>>)
        \o <<DigitChar(m % 10), 58, DigitChar(s \div 10), DigitChar(s % 10)>>

Colons(str) == {i \in 1..Len(str) : str[i] = 58}

\* the place of the k-th ":"; 0 before the first, Len(str) + 1 past the last
Colon(str, k) ==
    IF k = 0 THEN 0
    ELSE IF k > Cardinality(Colons(str)) THEN Len(str) + 1
    ELSE CHOOSE i \in Colons(str) : Cardinality({j \in Colons(str) : j < i}) = k - 1

\* str.split(":"): the pieces between the colons
StrSplit(str) ==
    [k \in 1..(Cardinality(Colons(str)) + 1) |->
        SubSeq(str, Colon(str, k - 1) + 1, Colon(str, k) - 1)]

(* Naturals of any size: the decimal digits, least significant first, no
   zero at the most significant end; <<>> is 0.  The operators split their
   operands in halves, so that their depth is the logarithm of the length *)

Zeros(k) == [i \in 1..k |-> 0]

Max(S) == CHOOSE i \in S : \A j \in S : j <= i
Min(S) == CHOOSE i \in S : \A j \in S : i <= j

NonZero(a) == {i \in 1..Len(a) : a[i] # 0}

NTrim(a) == IF NonZero(a) = {} THEN <<>> ELSE SubSeq(a, 1, Max(NonZero(a)))

RECURSIVE NFromInt(_)
NFromInt(k) == IF k = 0 THEN <<>> ELSE <<k % 10>> \o NFromInt(k \div 10)

\* for a natural of at most 10 digits
RECURSIVE NToInt(_)
NToInt(a) == IF a = <<>> THEN 0 ELSE Head(a) + 10 * NToInt(Tail(a))

Reverse(s) == [i \in 1..Len(s) |-> s[Len(s) + 1 - i]]

\* digits lo..hi of a * m + carry, and the carry out
RECURSIVE MulC(_, _, _, _, _)
MulC(a, m, lo, hi, carry) ==
    IF lo > hi THEN [d |-> <<>>, c |-> carry]
    ELSE IF lo = hi
    THEN [d |-> <<(a[lo] * m + carry) % 10>>, c |-> (a[lo] * m + carry) \div 10]
    ELSE LET mid == (lo + hi) \div 2
             low == MulC(a, m, lo, mid, carry)
             high == MulC(a, m, mid + 1, hi, low.c)
         IN  [d |-> low.d \o high.d, c |-> high.c]

\* a * m, for m below 2^27
NMul(a, m) ==
    LET r == MulC(a, m, 1, Len(a), 0) IN NTrim(r.d \o NFromInt(r.c))

\* digits lo..hi of a + b + carry, for a and b of one length
RECURSIVE AddC(_, _, _, _, _)
AddC(a, b, lo, hi, carry) ==
    IF lo > hi THEN [d |-> <<>>, c |-> carry]
    ELSE IF lo = hi
    THEN [d |-> <<(a[lo] + b[lo] + carry) % 10>>, c |-> (a[lo] + b[lo] + carry) \div 10]
    ELSE LET mid == (lo + hi) \div 2
             low == AddC(a, b, lo, mid, carry)
             high == AddC(a, b, mid + 1, hi, low.c)
         IN  [d |-> low.d \o high.d, c |-> high.c]

Longer(a, b) == IF Len(a) >= Len(b) THEN Len(a) ELSE Len(b)
Pad(a, n) == a \o Zeros(n - Len(a))

NAdd(a, b) ==
    LET n == Longer(a, b)
        r == AddC(Pad(a, n), Pad(b, n), 1, n, 0)
    IN  NTrim(r.d \o NFromInt(r.c))

\* digits lo..hi of a - b - borrow, and the borrow out
RECURSIVE SubB(_, _, _, _, _)
SubB(a, b, lo, hi, borrow) ==
    IF lo > hi THEN [d |-> <<>>, c |-> borrow]
    ELSE IF lo = hi
    THEN [d |-> <<(a[lo] - b[lo] - borrow + 10) % 10>>,
          c |-> IF a[lo] - b[lo] - borrow < 0 THEN 1 ELSE 0]
    ELSE LET mid == (lo + hi) \div 2
             low == SubB(a, b, lo, mid, borrow)
             high == SubB(a, b, mid + 1, hi, low.c)
         IN  [d |-> low.d \o high.d, c |-> high.c]

\* a - b, for a >= b
NSub(a, b) == NTrim(SubB(a, Pad(b, Len(a)), 1, Len(a), 0).d)

\* -1, 0, 1 as a < b, a = b, a > b
NCmp(a, b) ==
    IF Len(a) < Len(b) THEN -1
    ELSE IF Len(a) > Len(b) THEN 1
    ELSE IF a = b THEN 0
    ELSE LET i == Max({j \in 1..Len(a) : a[j] # b[j]})
         IN  IF a[i] < b[i] THEN -1 ELSE 1

\* a * 10^k
NShift10(a, k) == IF a = <<>> THEN a ELSE Zeros(k) \o a

\* a * m^k
RECURSIVE Repeat(_, _, _)
Repeat(a, m, k) ==
    IF k = 0 THEN a
    ELSE IF k = 1 THEN NMul(a, m)
    ELSE LET half == Repeat(a, m, k \div 2)
         IN  IF Len(half) >= 0 THEN Repeat(half, m, k - k \div 2) ELSE half

RECURSIVE Pow(_, _)
Pow(b, k) == IF k = 0 THEN 1 ELSE b * Pow(b, k - 1)

\* a * b^k, for b 2 or 5
Times(a, b, k) == NMul(Repeat(a, Pow(b, 8), k \div 8), Pow(b, k % 8))

\* 2^52 and 2^53
P52 == <<6, 9, 4, 0, 7, 3, 7, 2, 6, 9, 9, 5, 3, 0, 5, 4>>
P53 == <<2, 9, 9, 0, 4, 7, 4, 5, 2, 9, 9, 1, 7, 0, 0, 9>>

(* Fixed point: [n, s] is n / 10^s *)

Fix(n, s) == [n |-> n, s |-> s]

\* no zero at the end of the fraction
Canon(x) ==
    IF NonZero(x.n) = {} THEN Fix(<<>>, 0)
    ELSE LET drop == IF Min(NonZero(x.n)) - 1 < x.s THEN Min(NonZero(x.n)) - 1 ELSE x.s
         IN  Fix(SubSeq(NTrim(x.n), drop + 1, Len(NTrim(x.n))), x.s - drop)

IntPart(x) == IF x.s >= Len(x.n) THEN <<>> ELSE SubSeq(x.n, x.s + 1, Len(x.n))

FracPart(x) == NTrim(IF x.s >= Len(x.n) THEN x.n ELSE SubSeq(x.n, 1, x.s))

Halve(x, k) == Fix(Times(x.n, 5, k), x.s + k)
Double(x, k) == Fix(Times(x.n, 2, k), x.s)

\* how many halvings keep a whole part of len digits at 2^53 or more
Halvings(len) == IF len > 17 THEN 3 * (len - 17) ELSE 1

\* how many doublings keep x, below 10^top, under 2^52, e - 1074 at most
Doublings(top, e) ==
    LET k == IF 3 * (15 - top) >= 1 THEN 3 * (15 - top) ELSE 1
    IN  IF k <= e + 1074 THEN k ELSE e + 1074

\* x / 2^e with 2^52 <= x / 2^e < 2^53, or e = -1074 for the subnormals
RECURSIVE Scale(_, _)

ScaleDown(x, e, k) == Scale(Halve(x, k), e + k)

ScaleUp(x, e, k) == Scale(Double(x, k), e - k)

Scale(x, e) ==
    LET ip == IntPart(x)
    IN  IF NCmp(ip, P53) >= 0 THEN ScaleDown(x, e, Halvings(Len(ip)))
        ELSE IF NCmp(ip, P52) < 0 /\ e > -1074
        THEN ScaleUp(x, e, Doublings(Len(x.n) - x.s, e))
        ELSE [x |-> x, e |-> e]

\* q * 2^e
Unscale(q, e) == IF e >= 0 THEN Double(Fix(q, 0), e) ELSE Halve(Fix(q, 0), -e)

Overflow == [n |-> <<>>, s |-> -1]

\* the mantissa m at the exponent e; Overflow from 2^1024
Mantissa53(m, e) ==
    IF e > 971 \/ (e = 971 /\ NCmp(m, P53) >= 0) THEN Overflow
    ELSE Canon(Unscale(m, e))

\* q and what is left of it, as half compares the rest with 1/2: up when
\* more, and at the tie when q is odd
RoundHalfEven(q, half, e) ==
    Mantissa53(IF half > 0 \/ (half = 0 /\ q # <<>> /\ q[1] % 2 = 1)
               THEN NAdd(q, <<1>>) ELSE q, e)

RoundScaled(sc) ==
    RoundHalfEven(IntPart(sc.x),
                  NCmp(NMul(FracPart(sc.x), 2), NShift10(<<1>>, sc.x.s)),
                  sc.e)

\* a whole number up to 2^53 is a double as it stands, and 10^309 is past
\* the largest double
RoundCanon(c) ==
    IF c.n = <<>> THEN c
    ELSE IF c.s = 0 /\ NCmp(c.n, P53) <= 0 THEN c
    ELSE IF Len(c.n) - c.s > 309 THEN Overflow
    ELSE RoundScaled(Scale(c, 0))

\* the double nearest to x, ties to the even mantissa; Overflow from 2^1024
Round53(x) == RoundCanon(Canon(x))

(* Floats: kind "finite" with sign and the exact magnitude, "inf" with sign,
   or "nan" *)

Finite(sign, x) == [kind |-> "finite", sign |-> sign, x |-> x]
Inf(sign) == [kind |-> "inf", sign |-> sign, x |-> Fix(<<>>, 0)]
NaN == [kind |-> "nan", sign |-> 1, x |-> Fix(<<>>, 0)]

OrInf(sign, r) == IF r = Overflow THEN Inf(sign) ELSE Finite(sign, r)

Rounded(sign, x) == OrInf(sign, Round53(x))

\* at the scale s
AtScale(x, s) == NShift10(x.n, s - x.s)

Larger(i, j) == IF i >= j THEN i ELSE j

\* the exact sum of two signed naturals, as cmp compares them
SignedSum(asign, an, bsign, bn, cmp) ==
    IF asign = bsign THEN [sign |-> asign, n |-> NAdd(an, bn)]
    ELSE IF cmp >= 0 THEN [sign |-> asign, n |-> NSub(an, bn)]
    ELSE [sign |-> bsign, n |-> NSub(bn, an)]

RoundedSum(sum, s) == Rounded(sum.sign, Fix(sum.n, s))

FiniteAdd(asign, an, bsign, bn, s) ==
    RoundedSum(SignedSum(asign, an, bsign, bn, NCmp(an, bn)), s)

AddAt(a, b, s) == FiniteAdd(a.sign, AtScale(a.x, s), b.sign, AtScale(b.x, s), s)

\* float + float
FloatAdd(a, b) ==
    IF a.kind = "nan" \/ b.kind = "nan" THEN NaN
    ELSE IF a.kind = "inf" /\ b.kind = "inf"
    THEN IF a.sign = b.sign THEN a ELSE NaN
    ELSE IF a.kind = "inf" THEN a
    ELSE IF b.kind = "inf" THEN b
    ELSE AddAt(a, b, Larger(a.x.s, b.x.s))

(* int() and float() of a text *)

\* what int() and float() strip: tab, line feed, vertical tab, form feed,
\* carriage return, space, and the spaces of Unicode past ASCII
Blanks ==
    {9, 10, 11, 12, 13, 32,
     133, 160, 5760, 8192, 8193, 8194, 8195, 8196, 8197, 8198, 8199, 8200,
     8201, 8202, 8232, 8233, 8239, 8287, 12288}

Inked(text) == {i \in 1..Len(text) : text[i] \notin Blanks}

Strip(text) ==
    IF Inked(text) = {} THEN <<>>
    ELSE SubSeq(text, Min(Inked(text)), Max(Inked(text)))

\* "+" is 43 and "-" is 45
Signed(text) == text # <<>> /\ Head(text) \in {43, 45}
SignOf(text) == IF text # <<>> /\ Head(text) = 45 THEN -1 ELSE 1
Unsigned(text) == IF Signed(text) THEN Tail(text) ELSE text

\* digits, with single underscores (95) between them
DigitPart(text) ==
    /\ text # <<>>
    /\ IsDigit(text[1])
    /\ IsDigit(text[Len(text)])
    /\ \A i \in 1..Len(text) : IsDigit(text[i]) \/ text[i] = 95
    /\ \A i \in 1..(Len(text) - 1) : ~(text[i] = 95 /\ text[i + 1] = 95)

\* the natural a run of digits and underscores writes
NOfDigits(text) ==
    LET ds == SelectSeq(text, IsDigit)
    IN  NTrim(Reverse([i \in 1..Len(ds) |-> DigitValue(ds[i])]))

\* int() refuses a text of more than 4300 digits
WithinDigitLimit(body) == Len(SelectSeq(body, IsDigit)) <= 4300

IntBody(body) == DigitPart(body) /\ WithinDigitLimit(body)

IntLiteral(text) == IntBody(Unsigned(Strip(text)))

\* ASCII letters to lower case
Lower(c) == IF c \in 65..90 THEN c + 32 ELSE c

LowerText(text) == [i \in 1..Len(text) |-> Lower(text[i])]

IsInf(body) ==
    \/ body = Str(<<"i", "n", "f">>)
    \/ body = Str(<<"i", "n", "f", "i", "n", "i", "t", "y">>)
IsNaN(body) == body = Str(<<"n", "a", "n">>)

Places(body, c) == {i \in 1..Len(body) : body[i] = c}
Before(body, c) ==
    IF Places(body, c) = {} THEN body
    ELSE SubSeq(body, 1, (CHOOSE i \in Places(body, c) : TRUE) - 1)
After(body, c) ==
    IF Places(body, c) = {} THEN <<>>
    ELSE SubSeq(body, (CHOOSE i \in Places(body, c) : TRUE) + 1, Len(body))

\* digits [. digits] or . digits; "." is 46
Mantissa(m) ==
    /\ Cardinality(Places(m, 46)) <= 1
    /\ Before(m, 46) = <<>> \/ DigitPart(Before(m, 46))
    /\ After(m, 46) = <<>> \/ DigitPart(After(m, 46))
    /\ Before(m, 46) # <<>> \/ After(m, 46) # <<>>

Exponent(x) == DigitPart(Unsigned(x))

\* body is lower case, unsigned; "e" is 101
FloatNumber(body) ==
    /\ Cardinality(Places(body, 101)) <= 1
    /\ Mantissa(Before(body, 101))
    /\ Places(body, 101) # {} => Exponent(After(body, 101))

FloatLiteral(text) ==
    LET body == LowerText(Unsigned(Strip(text)))
    IN  IsInf(body) \/ IsNaN(body) \/ FloatNumber(body)

\* an int of the model's own as sign and natural
PyInt(k) == [sign |-> IF k < 0 THEN -1 ELSE 1, n |-> NFromInt(IF k < 0 THEN -k ELSE k)]

\* the exponent's value, of any size, as sign and natural; 0 without one
ExponentValue(x) == [sign |-> SignOf(x), n |-> NOfDigits(Unsigned(x))]

\* sign and natural a + b
SignedAdd(a, b) == SignedSum(a.sign, a.n, b.sign, b.n, NCmp(a.n, b.n))

Above(k, bound) == k.sign = 1 /\ NCmp(k.n, NFromInt(bound)) > 0

Below(k, bound) == k.sign = -1 /\ NCmp(k.n, NFromInt(-bound)) > 0

\* n / 10^shift, or n * 10^-shift
Shifted(n, shift) ==
    IF shift <= 0 THEN Fix(NShift10(n, -shift), 0) ELSE Fix(n, shift)

\* n written in Len(n) digits with its point at magnitude: n is under
\* 10^magnitude and 10^(magnitude - 1) at least, so that past 10^310 it is
\* inf and under 10^-330 it is 0, whatever the digits
Placed(sign, n, magnitude) ==
    IF Above(magnitude, 310) THEN Inf(sign)
    ELSE IF Below(magnitude, -330) THEN Finite(sign, Fix(<<>>, 0))
    ELSE Rounded(sign, Shifted(n, Len(n) - magnitude.sign * NToInt(magnitude.n)))

\* n * 10^(e - places), rounded
DecimalFloat(sign, n, places, e) ==
    IF n = <<>> THEN Finite(sign, Fix(<<>>, 0))
    ELSE Placed(sign, n, SignedAdd(PyInt(Len(n) - places), e))

MantissaValue(sign, whole, frac, e) ==
    DecimalFloat(sign, NOfDigits(whole \o frac), Len(frac), e)

SplitMantissa(sign, m, e) ==
    MantissaValue(sign, SelectSeq(Before(m, 46), IsDigit),
                  SelectSeq(After(m, 46), IsDigit), e)

\* the float a number's text rounds to
NumberValue(sign, body) ==
    SplitMantissa(sign, Before(body, 101), ExponentValue(After(body, 101)))

FloatOfBody(sign, body) ==
    IF IsInf(body) THEN Inf(sign)
    ELSE IF IsNaN(body) THEN NaN
    ELSE NumberValue(sign, body)

FloatOfStripped(t) == FloatOfBody(SignOf(t), LowerText(Unsigned(t)))

FloatOf(text) == FloatOfStripped(Strip(text))

IntOfStripped(t) == [sign |-> SignOf(t), n |-> NOfDigits(Unsigned(t))]

\* int as sign and natural
IntOf(text) == IntOfStripped(Strip(text))

FloatOrOverflow(sign, r) == IF r = Overflow THEN Overflow ELSE Finite(sign, r)

\* int -> float; Overflow past the largest double
IntToFloat(k) == FloatOrOverflow(k.sign, Round53(Fix(k.n, 0)))

\* the digits of a natural, most significant first
Text(n) == Reverse(n)

\* how a float reads: the integer when it is whole and within 32 bits
\* (30.0 = 30), else the sign and the digits of the exact decimal expansion
\* of the double (30.5 is whole <<3, 0>> and fraction <<5>>, 0.1 is
\* 0.1000000000000000055511151231257827...), or inf, -inf, nan
Value(f) ==
    IF f.kind = "nan" THEN [float |-> "nan"]
    ELSE IF f.kind = "inf" THEN [float |-> IF f.sign < 0 THEN "-inf" ELSE "inf"]
    ELSE IF f.x.n = <<>> THEN 0
    ELSE IF f.x.s = 0 /\ NCmp(f.x.n, NFromInt(2147483647)) <= 0 THEN f.sign * NToInt(f.x.n)
    ELSE [sign |-> f.sign,
          whole |-> Text(IntPart(f.x)),
          fraction |-> Text(SubSeq(f.x.n \o Zeros(f.x.s - Len(f.x.n)), 1, f.x.s))]

\* an int read back: the integer when it fits, else its digits
IntValue(k) ==
    IF NCmp(k.n, NFromInt(2147483647)) <= 0 THEN k.sign * NToInt(k.n)
    ELSE [sign |-> k.sign, whole |-> Text(k.n), fraction |-> <<>>]

\* line 26, int(text): the value, or the ValueError it raises
ParseInt(text) ==
    IF IntLiteral(text) THEN IntValue(IntOf(text)) ELSE Raise("ValueError", 26)

\* line 27, float(text): the value, or the ValueError it raises
ParseFloat(text) ==
    IF FloatLiteral(text) THEN Value(FloatOf(text)) ELSE Raise("ValueError", 27)

\* minutes * 60
Times60(k) == [sign |-> k.sign, n |-> NMul(k.n, 60)]

\* the number written by a run of decimal digits
RECURSIVE DecimalValue(_)
DecimalValue(run) ==
    IF run = <<>> THEN 0
    ELSE 10 * DecimalValue(SubSeq(run, 1, Len(run) - 1)) + DigitValue(run[Len(run)])

\* a run of one to six digits
Plain(text) ==
    /\ text # <<>>
    /\ Len(text) <= 6
    /\ \A i \in 1..Len(text) : IsDigit(text[i])

\* minutes and seconds both plain: int() and float() take them, and as the
\* whole numbers under 2^53 are doubles as they stand, the floats of line 37
\* and their sums are the integers'
PlainClock(pc_split) ==
    Len(pc_split) >= 2 /\ Plain(pc_split[1]) /\ Plain(pc_split[2])

\* lines 23-37: the exception the conversion of a clock raises, NoError if
\* none; a clock with no ":" has no pc_split[1], and an int past the largest
\* double cannot be added to a float
SplitError(pc_split) ==
    IF PlainClock(pc_split) THEN NoError
    ELSE IF ~IntLiteral(pc_split[1]) THEN Raise("ValueError", 26)
    ELSE IF Len(pc_split) < 2 THEN Raise("IndexError", 27)
    ELSE IF ~FloatLiteral(pc_split[2]) THEN Raise("ValueError", 27)
    ELSE IF IntToFloat(Times60(IntOf(pc_split[1]))) = Overflow
    THEN Raise("OverflowError", 37)
    ELSE NoError

ClockError(play_clock) == SplitError(StrSplit(play_clock))

\* line 37: period_time + (minutes * 60 + seconds), each sum a float
FloatTime(pc_split, period_time) ==
    FloatAdd(IntToFloat(PyInt(period_time)),
             FloatAdd(IntToFloat(Times60(IntOf(pc_split[1]))),
                      FloatOf(pc_split[2])))

SplitTime(pc_split, period_time) ==
    IF PlainClock(pc_split)
    THEN period_time + (DecimalValue(pc_split[1]) * 60 + DecimalValue(pc_split[2]))
    ELSE Value(FloatTime(pc_split, period_time))

GameTime(play_clock, period_time) ==
    SplitTime(StrSplit(play_clock), period_time)

\* the exception if one was raised, else the result
Outcome(exception, result) == IF exception # NoError THEN exception ELSE result

\* returns <<game_time_remaining, max_period_time>>, or the exception raised;
\* game_time_remaining is the float of line 37 as Value reads it
play_clock_to_seconds(play_clock, p) ==
    LET period_time == IF p <= 4 THEN 10 * (4 - p) * 60 ELSE 0
        max_period_time == IF p <= 4 THEN 10 * (5 - p) * 60 ELSE 5 * 60
    IN  Outcome(ClockError(play_clock),
                <<GameTime(play_clock, period_time), max_period_time>>)

-----------------------------------------------------------------------------
(* Rows of the play-by-play frame *)

Event(num, p, clock, type, p1, p2, p3, team) ==
    [game_id |-> game_id, eventnum |-> num, period |-> p, pctimestring |-> clock,
     eventmsgtype |-> type, player1_id |-> p1, player2_id |-> p2,
     player3_id |-> p3, player1_team_id |-> team, game_time_remaining |-> Null]

\* line 62: the derived column
WithGameTime(row) ==
    [row EXCEPT !.game_time_remaining =
        play_clock_to_seconds(row.pctimestring, row.period)[1]]

\* the mutant: game_time_remaining ascending
SortsBefore_Ascending(a, b) ==
    \/ a.game_time_remaining < b.game_time_remaining
    \/ /\ a.game_time_remaining = b.game_time_remaining
       /\ a.period < b.period
    \/ /\ a.game_time_remaining = b.game_time_remaining
       /\ a.period = b.period
       /\ a.eventnum < b.eventnum

\* line 63: the sort key, game_time_remaining descending, then period and
\* eventnum ascending
SortsBefore(a, b) ==
    \/ a.game_time_remaining > b.game_time_remaining
    \/ /\ a.game_time_remaining = b.game_time_remaining
       /\ a.period < b.period
    \/ /\ a.game_time_remaining = b.game_time_remaining
       /\ a.period = b.period
       /\ a.eventnum < b.eventnum

\* sort_values is stable: a row stays ahead of the later rows it ties with
RECURSIVE InsertSorted(_, _)
InsertSorted(row, frame) ==
    IF frame = <<>> THEN <<row>>
    ELSE IF ~SortsBefore(Head(frame), row) THEN <<row>> \o frame
    ELSE <<Head(frame)>> \o InsertSorted(row, Tail(frame))

RECURSIVE SortValues(_)
SortValues(frame) ==
    IF frame = <<>> THEN <<>>
    ELSE InsertSorted(Head(frame), SortValues(Tail(frame)))

-----------------------------------------------------------------------------
(* SortSpec: lines 62-63 on raw logs of MaxSortRows events *)

MaxSortRows == 2
MaxSortPeriod == 6
SortMinutes == {0, 5, 10}
SortSeconds == {0, 30}

\* a clock the period can show: 10:00 at most in regulation, 5:00 in overtime
ClockOfPeriod(m, s, p) ==
    60 * m + s <= (IF p <= 4 THEN 600 ELSE 300)

\* the minutes and seconds a clock string was written from
ClockMinSec(clock) ==
    CHOOSE ms \in SortMinutes \X SortSeconds : ClockString(ms[1], ms[2]) = clock

\* clocks the feed cannot have meant: no minutes, no seconds
MalformedClocks == {Str(<<":", "3", "0">>), Str(<<"5", ":">>)}

RawEvents ==
    {Event(n, p, ClockString(m, s), 6, Null, Null, Null, Null) :
        <<n, p, m, s>> \in
            {q \in (1..MaxSortRows) \X (1..MaxSortPeriod) \X SortMinutes \X SortSeconds :
                ClockOfPeriod(q[3], q[4], q[2])}}
    \cup {Event(n, 1, clock, 6, Null, Null, Null, Null) :
            <<n, clock>> \in (1..MaxSortRows) \X MalformedClocks}

RawLogs ==
    {log \in [1..MaxSortRows -> RawEvents] :
        \A i \in 1..MaxSortRows : \A j \in 1..MaxSortRows :
            i # j => log[i].eventnum # log[j].eventnum}

EmptyBank == [p \in {} |-> Null]

SortInit ==
    /\ pc = "raw"
    /\ pbp_df \in RawLogs
    /\ home_on_court = <<>>
    /\ visitor_on_court = <<>>
    /\ period = 1
    /\ time_on_court = EmptyBank
    /\ sub_df = <<>>
    /\ player_df = <<>>
    /\ returned = <<>>
    /\ error = NoError
    /\ before = <<>>

\* line 62: the column is computed row by row; the first clock that does
\* not parse ends the run with its exception
AttachGameTime ==
    /\ pc = "raw"
    /\ LET bad == {i \in 1..Len(pbp_df) : ClockError(pbp_df[i].pctimestring) # NoError}
       IN  IF bad = {}
           THEN /\ pbp_df' = [i \in 1..Len(pbp_df) |-> WithGameTime(pbp_df[i])]
                /\ pc' = "timed"
                /\ error' = error
           ELSE /\ pbp_df' = pbp_df
                /\ pc' = "failed"
                /\ error' = ClockError(
                        pbp_df[CHOOSE i \in bad : \A k \in bad : i <= k].pctimestring)
    /\ UNCHANGED <<home_on_court, visitor_on_court, period, time_on_court,
                   sub_df, player_df, returned, before>>

\* line 63
SortFrame ==
    /\ pc = "timed"
    /\ pbp_df' = SortValues(pbp_df)
    /\ pc' = "sorted"
    /\ UNCHANGED <<home_on_court, visitor_on_court, period, time_on_court,
                   sub_df, player_df, returned, error, before>>

SortNext == AttachGameTime \/ SortFrame

SortSpec == SortInit /\ [][SortNext]_vars

-----------------------------------------------------------------------------
(* ClockSpec: play_clock_to_seconds (lines 10-37) on one row, as line 62
   applies it, for clocks written from m minutes and s whole seconds *)

MaxClockPeriod == 6

\* the game's own minutes, as naturals
ShortMinutes == {NFromInt(m) : m \in {0, 5, 10, 12}}
ShortSeconds == {0, 30, 59}

\* 60 * 35791394 + 7 is 2^31 - 1
WordMinutes == {NFromInt(35791394)}
WordSeconds == {7, 8}

\* 60 * 150119987579016 + 32 is 2^53
Minutes2p53 == Reverse(<<1, 5, 0, 1, 1, 9, 9, 8, 7, 5, 7, 9, 0, 1, 6>>)
DoubleMinutes == {Minutes2p53}
DoubleSeconds == {0, 32, 33, 34, 35}

\* 10^309 minutes are past the largest double, and 10^4300 has 4301 digits
HugeMinutes == {Zeros(309) \o <<1>>, Zeros(4300) \o <<1>>}
HugeSeconds == {0}

\* <<m, s>>: the minutes as a natural, the seconds under 60
ClockReadings ==
    (ShortMinutes \X ShortSeconds) \cup (WordMinutes \X WordSeconds)
        \cup (DoubleMinutes \X DoubleSeconds) \cup (HugeMinutes \X HugeSeconds)

\* the text M:SS of a clock of m minutes, m a natural, and s seconds
ClockText(m, s) ==
    (IF m = <<>> THEN <<DigitChar(0)>>
     ELSE [i \in 1..Len(m) |-> DigitChar(m[Len(m) + 1 - i])])
        \o <<58, DigitChar(s \div 10), DigitChar(s % 10)>>

ClockRows ==
    {Event(1, p, ClockText(ms[1], ms[2]), 6, Null, Null, Null, Null) :
        <<p, ms>> \in (1..MaxClockPeriod) \X ClockReadings}

ClockInit ==
    /\ pc = "clock"
    /\ pbp_df \in {<<row>> : row \in ClockRows}
    /\ home_on_court = <<>>
    /\ visitor_on_court = <<>>
    /\ period = 1
    /\ time_on_court = EmptyBank
    /\ sub_df = <<>>
    /\ player_df = <<>>
    /\ returned = <<>>
    /\ error = NoError
    /\ before = <<>>

\* the call of line 62 on the row: what it returns, or the exception it
\* raises
Convert ==
    /\ pc = "clock"
    /\ IF ClockError(pbp_df[1].pctimestring) = NoError
       THEN /\ returned' = play_clock_to_seconds(pbp_df[1].pctimestring,
                                                 pbp_df[1].period)
            /\ error' = error
            /\ pc' = "converted"
       ELSE /\ returned' = returned
            /\ error' = ClockError(pbp_df[1].pctimestring)
            /\ pc' = "failed"
    /\ UNCHANGED <<pbp_df, home_on_court, visitor_on_court, period,
                   time_on_court, sub_df, player_df, before>>

ClockNext == Convert

ClockSpec == ClockInit /\ [][ClockNext]_vars

-----------------------------------------------------------------------------
(* The time bank (lines 65-68) and the event pass (lines 70-123) *)

Players == Range(home_roster) \cup Range(visitor_roster)

\* line 68
NewBank ==
    [p \in Players |->
        [playing_time |-> 0, time_in |-> NoTime, time_in_list |-> <<>>,
         time_out_list |-> <<>>, period_list |-> <<>>]]

\* the pass's locals
PassState(hoc, voc, per, bank, err) ==
    [home_on_court |-> hoc, visitor_on_court |-> voc, period |-> per,
     time_on_court |-> bank, error |-> err]

\* the mutant: the outgoing player stays in the list
SwapOnCourt_KeepOutgoing(list, row) ==
    IF ~In(row.player2_id, list) THEN Append(list, row.player2_id) ELSE list

\* lines 75-78 and 81-84: the outgoing player leaves the list if present,
\* the incoming player joins it if absent
SwapOnCourt(list, row) ==
    LET removed == IF In(row.player1_id, list)
                   THEN ListRemove(list, row.player1_id) ELSE list
    IN  IF ~In(row.player2_id, removed)
        THEN Append(removed, row.player2_id) ELSE removed

\* the mutant: the outgoing player always accrues from the period's start
CheckOut_FromPeriodStart(rec, gtr, max_period_time, per) ==
    LET accrued ==
            IF rec.time_in = NoTime
            THEN [rec EXCEPT !.playing_time = @ + (max_period_time - gtr),
                             !.time_in_list = Append(@, max_period_time)]
            ELSE [rec EXCEPT !.playing_time = @ + (max_period_time - gtr)]
    IN  [accrued EXCEPT !.time_in = NoTime,
                        !.time_out_list = Append(@, gtr),
                        !.period_list = Append(@, per)]

\* lines 88-96: close the outgoing player's interval
CheckOut(rec, gtr, max_period_time, per) ==
    LET accrued ==
            IF rec.time_in = NoTime
            THEN [rec EXCEPT !.playing_time = @ + (max_period_time - gtr),
                             !.time_in_list = Append(@, max_period_time)]
            ELSE [rec EXCEPT !.playing_time = @ + (rec.time_in[1] - gtr)]
    IN  [accrued EXCEPT !.time_in = NoTime,
                        !.time_out_list = Append(@, gtr),
                        !.period_list = Append(@, per)]

\* the mutant: the check-in is stored but not listed
CheckIn_NoList(rec, t) ==
    [rec EXCEPT !.time_in = Since(t)]

\* lines 99-100 and 118-119, 122-123: open an interval at t
CheckIn(rec, t) ==
    [rec EXCEPT !.time_in = Since(t), !.time_in_list = Append(@, t)]

\* lines 73-100
Substitution(st, row, gtr, max_period_time) ==
    LET home == row.player1_team_id = home_id
        hoc == IF home THEN SwapOnCourt(st.home_on_court, row)
               ELSE st.home_on_court
        voc == IF home THEN st.visitor_on_court
               ELSE SwapOnCourt(st.visitor_on_court, row)
        bank == st.time_on_court
    IN  IF row.player1_id \notin Players
        THEN PassState(hoc, voc, st.period, bank, Raise("KeyError", 88))
        ELSE
            LET out == [bank EXCEPT ![row.player1_id] =
                            CheckOut(@, gtr, max_period_time, st.period)]
            IN  IF row.player2_id \notin Players
                THEN PassState(hoc, voc, st.period, out, Raise("KeyError", 99))
                ELSE PassState(hoc, voc, st.period,
                               [out EXCEPT ![row.player2_id] = CheckIn(@, gtr)],
                               NoError)

\* the mutant: the period end closes the interval without accruing it
ClosePlayer_NoAccrual(rec, gtr, per) ==
    [rec EXCEPT !.time_in = NoTime,
                !.time_out_list = Append(@, gtr),
                !.period_list = Append(@, per)]

\* lines 104-107 for one player
ClosePlayer(rec, gtr, per) ==
    [rec EXCEPT !.playing_time = @ + (rec.time_in[1] - gtr),
                !.time_in = NoTime,
                !.time_out_list = Append(@, gtr),
                !.period_list = Append(@, per)]

\* lines 103-107: None - game_time_remaining is a TypeError
RECURSIVE ClosePeriod(_, _, _, _)
ClosePeriod(ids, bank, gtr, per) ==
    IF ids = <<>> THEN [time_on_court |-> bank, error |-> NoError]
    ELSE IF bank[Head(ids)].time_in = NoTime
    THEN [time_on_court |-> bank, error |-> Raise("TypeError", 104)]
    ELSE ClosePeriod(Tail(ids),
                     [bank EXCEPT ![Head(ids)] = ClosePlayer(@, gtr, per)],
                     gtr, per)

\* lines 101-111
PeriodEnd(st, row, gtr) ==
    LET closed == ClosePeriod(st.home_on_court \o st.visitor_on_court,
                              st.time_on_court, gtr, st.period)
    IN  IF closed.error # NoError
        THEN PassState(st.home_on_court, st.visitor_on_court, st.period,
                       closed.time_on_court, closed.error)
        ELSE PassState(<<>>, <<>>, st.period + 1, closed.time_on_court, NoError)

\* lines 114-123 for one named participant
NamePlayer(st, player_id, max_period_time) ==
    IF player_id = Null THEN st
    ELSE IF In(player_id, home_roster) /\ ~In(player_id, st.home_on_court)
    THEN [st EXCEPT !.home_on_court = Append(@, player_id),
                    !.time_on_court[player_id] = CheckIn(@, max_period_time)]
    ELSE IF In(player_id, visitor_roster) /\ ~In(player_id, st.visitor_on_court)
    THEN [st EXCEPT !.visitor_on_court = Append(@, player_id),
                    !.time_on_court[player_id] = CheckIn(@, max_period_time)]
    ELSE st

\* the mutant: only the first participant of a play is looked at
GenericPlay_FirstOnly(st, row, max_period_time) ==
    NamePlayer(st, row.player1_id, max_period_time)

\* lines 112-123
GenericPlay(st, row, max_period_time) ==
    NamePlayer(NamePlayer(NamePlayer(st, row.player1_id, max_period_time),
                          row.player2_id, max_period_time),
               row.player3_id, max_period_time)

\* lines 72-123: one iteration of the event loop
ProcessEvent(st, row) ==
    LET clock == play_clock_to_seconds(row.pctimestring, row.period)
        gtr == clock[1]
        max_period_time == clock[2]
    IN  IF row.eventmsgtype = 8 THEN Substitution(st, row, gtr, max_period_time)
        ELSE IF row.eventmsgtype = 13 THEN PeriodEnd(st, row, gtr)
        ELSE IF row.eventmsgtype <= 5 THEN GenericPlay(st, row, max_period_time)
        ELSE st

-----------------------------------------------------------------------------
(* The interval table (lines 125-141) *)

TeamOf(player_id) == IF In(player_id, home_roster) THEN home_id ELSE visitor_id

\* lines 131-138: columns of unequal length are a ValueError
PlayerIntervals(player_id, rec) ==
    [i \in 1..Len(rec.time_in_list) |->
        [player_id |-> player_id, team_id |-> TeamOf(player_id),
         time_in |-> rec.time_in_list[i], time_out |-> rec.time_out_list[i]]]

\* the mutant: columns are cut to the shorter list, an open check-in is dropped
RECURSIVE BuildSubDf_DropOpen(_, _, _)
BuildSubDf_DropOpen(ids, bank, acc) ==
    IF ids = <<>> THEN [sub_df |-> acc, error |-> NoError]
    ELSE LET rec == bank[Head(ids)]
             n == Len(rec.time_out_list)
             cut == [rec EXCEPT !.time_in_list = SubSeq(@, 1, n)]
         IN  BuildSubDf_DropOpen(Tail(ids), bank,
                                 acc \o PlayerIntervals(Head(ids), cut))

RECURSIVE BuildSubDf(_, _, _)
BuildSubDf(ids, bank, acc) ==
    IF ids = <<>> THEN [sub_df |-> acc, error |-> NoError]
    ELSE IF Len(bank[Head(ids)].time_in_list) # Len(bank[Head(ids)].time_out_list)
    THEN [sub_df |-> <<>>, error |-> Raise("ValueError", 131)]
    ELSE BuildSubDf(Tail(ids), bank, acc \o PlayerIntervals(Head(ids), bank[Head(ids)]))

-----------------------------------------------------------------------------
(* The assignment pass (lines 157-200) *)

PlayerIds(rows) == [i \in 1..Len(rows) |-> rows[i].player_id]

\* lines 160-179
OnCourtPlayers(sub, row, team_id) ==
    LET team_sub_df == SelectSeq(sub, LAMBDA r : r.team_id = team_id)
        t == row.game_time_remaining
        ended == SelectSeq(team_sub_df, LAMBDA r : r.time_out = t)
        halfopen == SelectSeq(team_sub_df,
                        LAMBDA r : r.time_in >= t /\ r.time_out < t)
        closed == SelectSeq(team_sub_df,
                        LAMBDA r : r.time_in >= t /\ r.time_out <= t)
        narrowed == SelectSeq(team_sub_df,
                        LAMBDA r : r.time_in > t /\ r.time_out <= t)
    IN  IF row.eventmsgtype = 13 THEN PlayerIds(ended)
        ELSE IF row.eventmsgtype = 8 THEN PlayerIds(halfopen)
        ELSE IF Len(closed) > 5 THEN PlayerIds(narrowed)
        ELSE PlayerIds(closed)

AssertionError(team_id, index) ==
    [kind |-> "AssertionError", line |-> 181, team_id |-> team_id, index |-> index]

\* lines 181-192: the five columns of one team
LineupColumns(on_court_players) ==
    <<on_court_players[1], on_court_players[2], on_court_players[3],
      on_court_players[4], on_court_players[5]>>

\* the mutant: the visitor's count is asserted before the home team's
AssignRow_VisitorFirst(sub, row, index) ==
    LET home == OnCourtPlayers(sub, row, home_id)
        visitor == OnCourtPlayers(sub, row, visitor_id)
    IN  IF Len(visitor) # 5
        THEN [row_df |-> <<>>, error |-> AssertionError(visitor_id, index)]
        ELSE IF Len(home) # 5
        THEN [row_df |-> <<>>, error |-> AssertionError(home_id, index)]
        ELSE [row_df |-> [game_id |-> row.game_id, eventnum |-> row.eventnum,
                          home_player |-> LineupColumns(home),
                          visitor_player |-> LineupColumns(visitor)],
              error |-> NoError]

\* lines 159-196: one iteration of the row loop, home then visitor;
\* index is the frame's 0-based row label
AssignRow(sub, row, index) ==
    LET home == OnCourtPlayers(sub, row, home_id)
        visitor == OnCourtPlayers(sub, row, visitor_id)
    IN  IF Len(home) # 5
        THEN [row_df |-> <<>>, error |-> AssertionError(home_id, index)]
        ELSE IF Len(visitor) # 5
        THEN [row_df |-> <<>>, error |-> AssertionError(visitor_id, index)]
        ELSE [row_df |-> [game_id |-> row.game_id, eventnum |-> row.eventnum,
                          home_player |-> LineupColumns(home),
                          visitor_player |-> LineupColumns(visitor)],
              error |-> NoError]

-----------------------------------------------------------------------------
(* Spec: ordered streams over one period *)

\* A log entry and the <<period, clock>> pairs it may be stamped with
Entry(type, p1, p2, p3, team, times) ==
    [eventmsgtype |-> type, player1_id |-> p1, player2_id |-> p2,
     player3_id |-> p3, player1_team_id |-> team, times |-> times]

MaxEvents == 7
Periods == {1}
PlayClocks == {ClockString(10, 0), ClockString(5, 0), ClockString(0, 0)}

AnyClock == Periods \X PlayClocks
AtBuzzer == Periods \X {ClockString(0, 0)}

\* The reference log, in the order it was written.  Entry k is the event
\* with eventnum k.  A stream takes any of the entries, each at any clock of
\* PlayClocks (a period-end at 0:00), with the clock never running backwards
\* from one entry to the next, so the sort of line 63 leaves it in log order.
Feed ==
    <<Entry(1, 1, 2, 3, home_id, AnyClock),
      Entry(2, 4, 11, 12, home_id, AnyClock),
      Entry(4, 13, 14, 15, visitor_id, AnyClock),
      Entry(5, Stranger, 5, Null, Null, AnyClock),
      Entry(8, 1, 6, Null, home_id, AnyClock),
      Entry(8, 5, 6, Null, visitor_id, AnyClock),
      Entry(3, 1, Null, Null, home_id, AnyClock),
      Entry(6, 3, Null, Null, home_id, AnyClock),
      Entry(8, 6, 1, Null, home_id, AnyClock),
      Entry(8, 6, Stranger, Null, home_id, AnyClock),
      Entry(13, Null, Null, Null, Null, AtBuzzer)>>

FeedEvent(feed, k, p, clock) ==
    WithGameTime(Event(k, p, clock, feed[k].eventmsgtype, feed[k].player1_id,
                       feed[k].player2_id, feed[k].player3_id,
                       feed[k].player1_team_id))

Init ==
    /\ pc = "events"
    /\ pbp_df = <<>>
    /\ home_on_court = <<>>
    /\ visitor_on_court = <<>>
    /\ period = 1
    /\ time_on_court = NewBank
    /\ sub_df = <<>>
    /\ player_df = <<>>
    /\ returned = <<>>
    /\ error = NoError
    /\ before = <<>>

\* lines 70-123: the loop takes the next row of the sorted frame
ProcessNext(feed, cap) ==
    /\ pc = "events"
    /\ Len(pbp_df) < cap
    /\ \E k \in 1..Len(feed) : \E time \in feed[k].times :
        LET row == FeedEvent(feed, k, time[1], time[2])
            st == ProcessEvent(PassState(home_on_court, visitor_on_court,
                                         period, time_on_court, NoError), row)
        IN  /\ pbp_df # <<>> =>
                /\ pbp_df[Len(pbp_df)].eventnum < k
                /\ SortsBefore(pbp_df[Len(pbp_df)], row)
            /\ pbp_df' = Append(pbp_df, row)
            /\ before' = Append(before, [home |-> home_on_court,
                                         visitor |-> visitor_on_court])
            /\ home_on_court' = st.home_on_court
            /\ visitor_on_court' = st.visitor_on_court
            /\ period' = st.period
            /\ time_on_court' = st.time_on_court
            /\ error' = st.error
            /\ pc' = IF st.error = NoError THEN "events" ELSE "failed"
    /\ UNCHANGED <<sub_df, player_df, returned>>

NextEvent == ProcessNext(Feed, MaxEvents)

\* lines 125-141: the frame is exhausted
EndOfStream ==
    /\ pc = "events"
    /\ LET built == BuildSubDf(home_roster \o visitor_roster, time_on_court, <<>>)
       IN  /\ sub_df' = built.sub_df
           /\ error' = built.error
           /\ pc' = IF built.error = NoError THEN "assign" ELSE "failed"
    /\ UNCHANGED <<pbp_df, home_on_court, visitor_on_court, period,
                   time_on_court, player_df, returned, before>>

\* lines 158-198: the row loop of assign_players_on_court
AssignNext ==
    /\ pc = "assign"
    /\ Len(player_df) < Len(pbp_df)
    /\ LET index == Len(player_df)
           got == AssignRow(sub_df, pbp_df[index + 1], index)
       IN  /\ error' = got.error
           /\ player_df' = IF got.error = NoError
                           THEN Append(player_df, got.row_df) ELSE player_df
           /\ pc' = IF got.error = NoError THEN "assign" ELSE "failed"
    /\ UNCHANGED <<pbp_df, home_on_court, visitor_on_court, period,
                   time_on_court, sub_df, returned, before>>

\* line 200
Return ==
    /\ pc = "assign"
    /\ Len(player_df) = Len(pbp_df)
    /\ returned' = player_df
    /\ pc' = "done"
    /\ UNCHANGED <<pbp_df, home_on_court, visitor_on_court, period,
                   time_on_court, sub_df, player_df, error, before>>

Next == NextEvent \/ EndOfStream \/ AssignNext \/ Return

Spec == Init /\ [][Next]_vars

-----------------------------------------------------------------------------
(* GameSpec: the sub-logs of a two-period game with its clocks as logged *)

P1Start == {<<1, ClockString(10, 0)>>}
P1End == {<<1, ClockString(0, 0)>>}
P2Start == {<<2, ClockString(10, 0)>>}
P2Mid == {<<2, ClockString(5, 0)>>}
P2End == {<<2, ClockString(0, 0)>>}

GameFeed ==
    <<Entry(1, 1, 2, 3, home_id, P1Start),
      Entry(2, 4, 11, 12, home_id, P1Start),
      Entry(4, 13, 14, 15, visitor_id, P1Start),
      Entry(5, 5, Null, Null, home_id, P1Start),
      Entry(13, Null, Null, Null, Null, P1End),
      Entry(8, 5, 6, Null, home_id, P1End),
      Entry(1, 1, 2, 3, home_id, P2Start),
      Entry(2, 4, 11, 12, home_id, P2Start),
      Entry(4, 13, 14, 15, visitor_id, P2Start),
      Entry(5, 5, Null, Null, home_id, P2Start),
      Entry(8, 6, 5, Null, home_id, P2Mid),
      Entry(13, Null, Null, Null, Null, P2End)>>

NextGameEvent == ProcessNext(GameFeed, Len(GameFeed))

GameNext == NextGameEvent \/ EndOfStream \/ AssignNext \/ Return

GameSpec == Init /\ [][GameNext]_vars

-----------------------------------------------------------------------------
(* OvertimeSpec: the sub-logs of a fourth period and an overtime, each entry
   at any clock its period can show *)

OvertimeClocks ==
    {<<4, ClockString(10, 0)>>, <<4, ClockString(5, 0)>>, <<4, ClockString(0, 0)>>,
     <<5, ClockString(5, 0)>>, <<5, ClockString(0, 0)>>}
OvertimeBuzzer == {<<4, ClockString(0, 0)>>, <<5, ClockString(0, 0)>>}

OvertimeFeed ==
    <<Entry(1, 1, 2, 3, home_id, OvertimeClocks),
      Entry(2, 4, 5, 11, home_id, OvertimeClocks),
      Entry(4, 12, 13, 14, visitor_id, OvertimeClocks),
      Entry(8, 1, 6, Null, home_id, OvertimeClocks),
      Entry(13, Null, Null, Null, Null, OvertimeBuzzer),
      Entry(3, 1, 15, Null, home_id, OvertimeClocks),
      Entry(8, 6, 1, Null, home_id, OvertimeClocks),
      Entry(13, Null, Null, Null, Null, OvertimeBuzzer)>>

NextOvertimeEvent == ProcessNext(OvertimeFeed, Len(OvertimeFeed))

OvertimeNext == NextOvertimeEvent \/ EndOfStream \/ AssignNext \/ Return

OvertimeSpec == Init /\ [][OvertimeNext]_vars

-----------------------------------------------------------------------------
(* Properties *)

Built == pc \in {"assign", "done"} \/ error.kind = "AssertionError"

Matches(i, team_id) == Len(OnCourtPlayers(sub_df, pbp_df[i], team_id))

\* C1: every event row gets exactly 5 ids per team or the pass aborts with
\* an assertion error at the first (event, team) whose count is not 5, home
\* checked before visitor; rows are emitted only with 5 ids per team and no
\* table is returned after an abort.
C1_FiveOrAbort ==
    Built =>
        /\ \A i \in 1..Len(player_df) :
            /\ Matches(i, home_id) = 5
            /\ Matches(i, visitor_id) = 5
            /\ player_df[i].home_player = OnCourtPlayers(sub_df, pbp_df[i], home_id)
            /\ player_df[i].visitor_player = OnCourtPlayers(sub_df, pbp_df[i], visitor_id)
            /\ player_df[i].eventnum = pbp_df[i].eventnum
        /\ error.kind = "AssertionError" =>
            /\ pc = "failed"
            /\ returned = <<>>
            /\ error.index = Len(player_df)
            /\ error.index < Len(pbp_df)
            /\ \/ /\ error.team_id = home_id
                  /\ Matches(error.index + 1, home_id) # 5
               \/ /\ error.team_id = visitor_id
                  /\ Matches(error.index + 1, home_id) = 5
                  /\ Matches(error.index + 1, visitor_id) # 5
        /\ pc = "done" =>
            /\ error = NoError
            /\ returned = player_df
            /\ Len(returned) = Len(pbp_df)

\* the pass aborts on a later row, at the home team, while the visitor's
\* count is off as well
C1_Witness ==
    /\ pc = "failed"
    /\ error.kind = "AssertionError"
    /\ error.index > 0
    /\ error.team_id = home_id
    /\ Matches(error.index + 1, visitor_id) # 5

Distinct(ids) ==
    \A a \in 1..Len(ids) : \A b \in 1..Len(ids) : a # b => ids[a] # ids[b]

\* C2: in every row of a returned lineup table the 5 ids of each team are
\* pairwise distinct.
C2_DistinctIds ==
    pc = "done" =>
        \A i \in 1..Len(returned) :
            /\ Distinct(returned[i].home_player)
            /\ Distinct(returned[i].visitor_player)

\* C3: once process_pbp_data has returned, every player's intervals are
\* pairwise non-overlapping and listed by decreasing time_in.
C3_IntervalsDisjointOrdered ==
    pc \in {"assign", "done"} =>
        \A p \in Players :
            LET ins == time_on_court[p].time_in_list
                outs == time_on_court[p].time_out_list
            IN  \A i \in 1..Len(outs) : \A j \in 1..Len(outs) :
                    i < j => /\ ins[i] >= ins[j]
                             /\ ins[j] <= outs[i]

ClockLeft(row) ==
    60 * ClockMinSec(row.pctimestring)[1] + ClockMinSec(row.pctimestring)[2]

\* a happens before b in the game
HappensBefore(a, b) ==
    \/ a.period < b.period
    \/ /\ a.period = b.period
       /\ ClockLeft(a) > ClockLeft(b)
    \/ /\ a.period = b.period
       /\ ClockLeft(a) = ClockLeft(b)
       /\ a.eventnum < b.eventnum

\* C4: the sorted frame lists the events in game chronology: an event that
\* happens before another one is processed before it.
C4_SortIsChronology ==
    pc = "sorted" =>
        \A i \in 1..Len(pbp_df) : \A j \in 1..Len(pbp_df) :
            HappensBefore(pbp_df[i], pbp_df[j]) => i < j

\* the seconds and the period's length the clock of m minutes and s seconds
\* stands for in period p, in whole numbers of any size
ClosedForm(m, s, p) ==
    IF p <= 4
    THEN <<IntValue([sign |-> 1,
                     n |-> NAdd(NMul(m, 60), NFromInt(600 * (4 - p) + s))]),
           600 * (5 - p)>>
    ELSE <<IntValue([sign |-> 1, n |-> NAdd(NMul(m, 60), NFromInt(s))]), 300>>

\* the reading the row's clock was written from
ReadingOf(clock) ==
    CHOOSE ms \in ClockReadings : ClockText(ms[1], ms[2]) = clock

IsClosedForm(result, ms, p) == result = ClosedForm(ms[1], ms[2], p)

Below2p53(ms, p) ==
    NCmp(NAdd(NMul(ms[1], 60), NFromInt(ms[2] + (IF p <= 4 THEN 600 * (4 - p) ELSE 0))),
         P53) <= 0

ExactBelow2p53 ==
    pc # "clock" /\ Below2p53(ReadingOf(pbp_df[1].pctimestring), pbp_df[1].period) =>
        /\ pc = "converted"
        /\ IsClosedForm(returned, ReadingOf(pbp_df[1].pctimestring), pbp_df[1].period)

\* past 2^53 the sums of line 37 round: 150119987579016:33 in overtime is
\* 2^53 + 1 seconds and converts to 2^53
RoundsPast2p53 ==
    /\ pc = "converted"
    /\ pbp_df[1].period = 5
    /\ pbp_df[1].pctimestring = ClockText(Minutes2p53, 33)
    /\ returned = <<IntValue([sign |-> 1, n |-> P53]), 300>>

\* 10^4300 minutes are refused by int(), 10^309 by the sum with a float
RefusedMinutes ==
    /\ pc = "failed"
    /\ \/ /\ pbp_df[1].pctimestring = ClockText(Zeros(4300) \o <<1>>, 0)
          /\ error = Raise("ValueError", 26)
       \/ /\ pbp_df[1].pctimestring = ClockText(Zeros(309) \o <<1>>, 0)
          /\ error = Raise("OverflowError", 37)

IntervalsOf(p) == SelectSeq(sub_df, LAMBDA r : r.player_id = p)

IntervalLengths(rows) == [i \in 1..Len(rows) |-> rows[i].time_in - rows[i].time_out]

\* C6: once the interval table is built, each player's intervals add up to
\* the playing_time the event pass accumulated for that player.
C6_RoundTrip ==
    Built =>
        \A p \in Players :
            SumSeq(IntervalLengths(IntervalsOf(p))) = time_on_court[p].playing_time

\* a player with two intervals, the first closed by a substitution
C6_Witness ==
    /\ pc = "assign"
    /\ \E p \in Players :
        /\ Len(IntervalsOf(p)) >= 2
        /\ time_on_court[p].playing_time > 0

\* C7: after every processed event a player who is not checked in has as
\* many check-ins as check-outs, and a checked-in player has one more.
C7_ListLengths ==
    pc = "events" =>
        \A p \in Players :
            LET rec == time_on_court[p]
            IN  IF rec.time_in = NoTime
                THEN Len(rec.time_in_list) = Len(rec.time_out_list)
                ELSE Len(rec.time_in_list) = Len(rec.time_out_list) + 1

\* C8: in a returned lineup table, the lineup of a period-end event is the
\* set of players that were on court for that team when the event pass
\* reached the event.
C8_PeriodEndLineup ==
    pc = "done" =>
        \A i \in 1..Len(returned) :
            pbp_df[i].eventmsgtype = 13 =>
                /\ Range(returned[i].home_player) = Range(before[i].home)
                /\ Range(returned[i].visitor_player) = Range(before[i].visitor)

RECURSIVE TeamPlayingTime(_)
TeamPlayingTime(roster) ==
    IF roster = <<>> THEN 0
    ELSE time_on_court[Head(roster)].playing_time + TeamPlayingTime(Tail(roster))

\* C9: when a one-period game reconstructs without error, each team's
\* playing_time totals add up to 5 players times the 600 seconds of the
\* period.
C9_TeamTotals ==
    (pc = "done" /\ pbp_df # <<>>) =>
        /\ TeamPlayingTime(home_roster) = 5 * 600
        /\ TeamPlayingTime(visitor_roster) = 5 * 600

\* a reconstructed game in which a substitute played part of the period
C9_Witness ==
    /\ pc = "done"
    /\ pbp_df # <<>>
    /\ time_on_court[1].playing_time > 0
    /\ time_on_court[1].playing_time < 600
    /\ time_on_court[6].playing_time > 0

NamesStranger(row) ==
    /\ row.eventmsgtype = 8 \/ row.eventmsgtype <= 5
    /\ \E id \in {row.player1_id, row.player2_id, row.player3_id} :
        id # Null /\ id \notin Players

\* C10: an event that names a participant of neither roster, in a
\* substitution or a generic play, ends the run with an error at that event.
C10_StrangerIsFatal ==
    \A i \in 1..Len(pbp_df) :
        NamesStranger(pbp_df[i]) =>
            /\ i = Len(pbp_df)
            /\ pc = "failed"
            /\ error.kind = "KeyError"

OpenCheckIn(p) ==
    Len(time_on_court[p].time_in_list) > Len(time_on_court[p].time_out_list)

\* C11: when the event stream is exhausted while some player has an open
\* check-in, process_pbp_data raises (the ValueError of the table build)
\* and returns no interval table; a table that was built holds, for every
\* player, all of the player's check-ins, each with its check-out.
C11_OpenIntervalFails ==
    /\ (pc # "events" /\ \E p \in Players : OpenCheckIn(p)) =>
            /\ pc = "failed"
            /\ error.kind \in {"KeyError", "TypeError", "ValueError"}
            /\ sub_df = <<>>
            /\ returned = <<>>
    /\ error.kind = "ValueError" =>
            /\ pc = "failed"
            /\ \E p \in Players :
                    Len(time_on_court[p].time_in_list)
                        # Len(time_on_court[p].time_out_list)
    /\ pc \in {"assign", "done"} =>
            \A p \in Players :
                /\ time_on_court[p].time_in = NoTime
                /\ Len(IntervalsOf(p)) = Len(time_on_court[p].time_in_list)

\* the stream ends after plays that opened intervals, with no period end
C11_Witness ==
    /\ pc = "failed"
    /\ error.kind = "ValueError"
    /\ pbp_df # <<>>
    /\ \A i \in 1..Len(pbp_df) : pbp_df[i].eventmsgtype <= 5
    /\ \E p \in Players :
        /\ time_on_court[p].time_in # NoTime
        /\ OpenCheckIn(p)

\* the row the event pass processed last
LastRow == pbp_df[Len(pbp_df)]

\* C12: right after a period-end event was processed, both on-court lists
\* are empty, the period counter is one past the value it had, every player's
\* stored time_in is None and every player has as many check-ins as
\* check-outs.
C12_PeriodEndCloses ==
    (pc = "events" /\ pbp_df # <<>> /\ LastRow.eventmsgtype = 13) =>
        /\ home_on_court = <<>>
        /\ visitor_on_court = <<>>
        /\ period = 1 + Cardinality({i \in 1..Len(pbp_df) : pbp_df[i].eventmsgtype = 13})
        /\ \A p \in Players :
            /\ time_on_court[p].time_in = NoTime
            /\ Len(time_on_court[p].time_in_list) = Len(time_on_court[p].time_out_list)

\* the event pass has just processed one more row without an error
Processed ==
    /\ pc = "events"
    /\ pc' = "events"
    /\ Len(pbp_df') = Len(pbp_df) + 1

NewRow == pbp_df'[Len(pbp_df')]

\* C13: a substitution at game_time_remaining t (A out, B in, tag T) adds
\* c - t to A's playing_time, c being A's stored time_in or, if A has none,
\* max_period_time, which is then also appended to A's time_in_list; A's
\* time_in becomes None and t is appended to A's time_out_list; B's time_in
\* becomes t and t is appended to B's time_in_list; A leaves and B joins the
\* on-court list of team T; every other record and the other list stay.
C13_SubstitutionEffect ==
    [][(Processed /\ NewRow.eventmsgtype = 8) =>
        LET A == NewRow.player1_id
            B == NewRow.player2_id
            t == NewRow.game_time_remaining
            max_period_time ==
                play_clock_to_seconds(NewRow.pctimestring, NewRow.period)[2]
            was == time_on_court[A]
            c == IF was.time_in = NoTime THEN max_period_time ELSE was.time_in[1]
        IN  /\ time_on_court'[A].playing_time = was.playing_time + (c - t)
            /\ time_on_court'[A].time_in_list =
                    IF was.time_in = NoTime
                    THEN Append(was.time_in_list, max_period_time)
                    ELSE was.time_in_list
            /\ time_on_court'[A].time_in = NoTime
            /\ time_on_court'[A].time_out_list = Append(was.time_out_list, t)
            /\ time_on_court'[B].time_in = Since(t)
            /\ time_on_court'[B].time_in_list = Append(time_on_court[B].time_in_list, t)
            /\ time_on_court'[B].playing_time = time_on_court[B].playing_time
            /\ time_on_court'[B].time_out_list = time_on_court[B].time_out_list
            /\ \A p \in Players \ {A, B} : time_on_court'[p] = time_on_court[p]
            /\ IF NewRow.player1_team_id = home_id
               THEN /\ Range(home_on_court') = (Range(home_on_court) \ {A}) \cup {B}
                    /\ visitor_on_court' = visitor_on_court
               ELSE /\ Range(visitor_on_court') = (Range(visitor_on_court) \ {A}) \cup {B}
                    /\ home_on_court' = home_on_court
            /\ period' = period
      ]_vars

\* a substitution at 0:00 took off player 6, who had no stored check-in,
\* and brought on player 1
C13_Witness ==
    /\ pc = "events"
    /\ pbp_df # <<>>
    /\ LastRow.eventmsgtype = 8
    /\ LastRow.player1_id = 6
    /\ LastRow.player2_id = 1
    /\ LastRow.game_time_remaining = 1800
    /\ ~In(6, before[Len(pbp_df)].home)
    /\ ~In(1, before[Len(pbp_df)].home)
    /\ In(1, home_on_court)
    /\ time_on_court[6].time_in_list = <<2400>>
    /\ time_on_court[6].time_out_list = <<1800>>
    /\ time_on_court[6].playing_time = 600
    /\ time_on_court[1].time_in = Since(1800)
    /\ time_on_court[1].time_in_list = <<1800>>

\* lines 170-172: the intervals that contain t, both ends included
ClosedFilter(sub, t, team_id) ==
    SelectSeq(sub, LAMBDA r : r.team_id = team_id /\ r.time_in >= t /\ r.time_out <= t)

\* lines 174-176: the same without the intervals that begin at t
NarrowedFilter(sub, t, team_id) ==
    SelectSeq(sub, LAMBDA r : r.team_id = team_id /\ r.time_in > t /\ r.time_out <= t)

Roster(team_id) == IF team_id = home_id THEN home_roster ELSE visitor_roster

Lineup(i, team_id) ==
    IF team_id = home_id THEN player_df[i].home_player
    ELSE player_df[i].visitor_player

\* row j is a substitution of team_id between two of its roster players
TeamSubstitution(j, team_id) ==
    /\ pbp_df[j].eventmsgtype = 8
    /\ pbp_df[j].player1_team_id = team_id
    /\ In(pbp_df[j].player1_id, Roster(team_id))
    /\ In(pbp_df[j].player2_id, Roster(team_id))

PlainEvent(i) == pbp_df[i].eventmsgtype \notin {8, 13}

\* the lineup given to a plain event holds the outgoing and not the incoming
\* player of every substitution of the team at the event's time
C14_OutgoingWins ==
    Built =>
        \A i \in 1..Len(player_df) : \A j \in 1..Len(pbp_df) :
            \A team_id \in {home_id, visitor_id} :
                (/\ PlainEvent(i)
                 /\ TeamSubstitution(j, team_id)
                 /\ pbp_df[j].game_time_remaining = pbp_df[i].game_time_remaining) =>
                    /\ In(pbp_df[j].player1_id, Lineup(i, team_id))
                    /\ ~In(pbp_df[j].player2_id, Lineup(i, team_id))

\* whenever the closed filter gives more than 5, the narrowed one gives 5
C14_NarrowedGivesFive ==
    Built =>
        \A i \in 1..Len(pbp_df) : \A team_id \in {home_id, visitor_id} :
            (/\ PlainEvent(i)
             /\ Len(ClosedFilter(sub_df, pbp_df[i].game_time_remaining, team_id)) > 5) =>
                Len(NarrowedFilter(sub_df, pbp_df[i].game_time_remaining, team_id)) = 5

\* C14: a plain event (neither substitution nor period end) at the time t of
\* a substitution of the same team gets a lineup with the outgoing and
\* without the incoming player, whichever of the two was processed first;
\* the narrowed filter is used only when the closed one gives more than 5
\* and it then gives exactly 5.
C14_SameTimeAsSubstitution ==
    /\ C14_OutgoingWins
    /\ C14_NarrowedGivesFive
    /\ Built =>
        \A i \in 1..Len(player_df) : \A team_id \in {home_id, visitor_id} :
            PlainEvent(i) =>
                Lineup(i, team_id) =
                    PlayerIds(IF Len(ClosedFilter(sub_df, pbp_df[i].game_time_remaining, team_id)) > 5
                              THEN NarrowedFilter(sub_df, pbp_df[i].game_time_remaining, team_id)
                              ELSE ClosedFilter(sub_df, pbp_df[i].game_time_remaining, team_id))

\* C15: in a returned lineup table, the row of a substitution of a team
\* (at time t) lists the substitution's incoming player and not its outgoing
\* player among that team's five, also when other substitutions of the team
\* share the time t.
C15_SubstitutionLineup ==
    pc = "done" =>
        \A i \in 1..Len(returned) : \A team_id \in {home_id, visitor_id} :
            TeamSubstitution(i, team_id) =>
                /\ In(pbp_df[i].player2_id, Lineup(i, team_id))
                /\ ~In(pbp_df[i].player1_id, Lineup(i, team_id))

\* every substitution processed so far swaps two roster players of the team
\* it is tagged with
ValidTags ==
    \A j \in 1..Len(pbp_df) :
        pbp_df[j].eventmsgtype = 8 =>
            TeamSubstitution(j, home_id) \/ TeamSubstitution(j, visitor_id)

\* C16: after every processed event each team's on-court list holds at most
\* 5 players, also when a player substituted out earlier in the period is
\* named by a later play; checked on the streams whose substitutions carry
\* the tag of their players' team.
C16_AtMostFive ==
    (pc = "events" /\ ValidTags) =>
        /\ Cardinality(Range(home_on_court)) <= 5
        /\ Cardinality(Range(visitor_on_court)) <= 5

OnCourtOf(p, hoc, voc) == IF In(p, home_roster) THEN hoc ELSE voc

Named(row) == {row.player1_id, row.player2_id, row.player3_id} \cap Players

\* C17: an event that is neither a substitution nor a period end removes
\* nobody, closes no interval and changes no playing_time; a play of type
\* <= 5 adds exactly the named roster players that are not in their team's
\* on-court list, opening each at max_period_time, and leaves the records
\* of all others as they were; any other type changes nothing.
C17_PlainEventEffect ==
    [][(Processed /\ NewRow.eventmsgtype \notin {8, 13}) =>
        LET max_period_time ==
                play_clock_to_seconds(NewRow.pctimestring, NewRow.period)[2]
            added == {p \in Named(NewRow) :
                        ~In(p, OnCourtOf(p, home_on_court, visitor_on_court))}
        IN  /\ period' = period
            /\ SubSeq(home_on_court', 1, Len(home_on_court)) = home_on_court
            /\ SubSeq(visitor_on_court', 1, Len(visitor_on_court)) = visitor_on_court
            /\ \A p \in Players :
                /\ time_on_court'[p].playing_time = time_on_court[p].playing_time
                /\ time_on_court'[p].time_out_list = time_on_court[p].time_out_list
                /\ time_on_court'[p].period_list = time_on_court[p].period_list
            /\ IF NewRow.eventmsgtype <= 5
               THEN /\ Range(home_on_court') =
                            Range(home_on_court) \cup (added \cap Range(home_roster))
                    /\ Range(visitor_on_court') =
                            Range(visitor_on_court) \cup (added \cap Range(visitor_roster))
                    /\ \A p \in added :
                        /\ time_on_court'[p].time_in = Since(max_period_time)
                        /\ time_on_court'[p].time_in_list =
                                Append(time_on_court[p].time_in_list, max_period_time)
                    /\ \A p \in Players \ added :
                            time_on_court'[p] = time_on_court[p]
               ELSE /\ home_on_court' = home_on_court
                    /\ visitor_on_court' = visitor_on_court
                    /\ time_on_court' = time_on_court
      ]_vars

\* a play added player 5, a later play named a player already on court, and
\* the last event is of a type above 5
C17_Witness ==
    /\ pc = "events"
    /\ pbp_df # <<>>
    /\ LastRow.eventmsgtype = 6
    /\ home_on_court = before[Len(pbp_df)].home
    /\ \E i \in 1..Len(pbp_df) :
        /\ pbp_df[i].eventmsgtype <= 5
        /\ pbp_df[i].player2_id = 5
        /\ ~In(5, before[i].home)
        /\ In(5, home_on_court)
        /\ time_on_court[5].time_in_list = <<2400>>
    /\ \E i \in 1..Len(pbp_df) :
        /\ pbp_df[i].eventmsgtype <= 5
        /\ In(pbp_df[i].player1_id, before[i].home)
        /\ time_on_court[pbp_df[i].player1_id].time_in_list = <<2400>>

\* C18: the assertion error raised when a team's count of matching
\* intervals is not 5 carries that team's id and the eventnum of the event
\* at which the count was taken.
C18_ErrorNamesEvent ==
    error.kind = "AssertionError" =>
        LET failing == pbp_df[Len(player_df) + 1]
        IN  /\ error.team_id \in {home_id, visitor_id}
            /\ Len(OnCourtPlayers(sub_df, failing, error.team_id)) # 5
            /\ error.index = failing.eventnum

\* C19: on ordered streams whose clocks stay within their period's length
\* (10:00 up to period 4, 5:00 from period 5 on), after every event each
\* player's playing_time is non-negative, each check-in is at or above the
\* check-out it is paired with, and every row of the interval table has
\* time_in >= time_out.
C19_IntervalsRunDown ==
    /\ \A p \in Players :
        LET rec == time_on_court[p]
        IN  /\ rec.playing_time >= 0
            /\ \A i \in 1..Len(rec.time_out_list) :
                /\ i <= Len(rec.time_in_list)
                /\ rec.time_in_list[i] >= rec.time_out_list[i]
            /\ rec.time_in # NoTime =>
                (pbp_df # <<>> /\ rec.time_in[1] >= LastRow.game_time_remaining)
    /\ \A i \in 1..Len(sub_df) : sub_df[i].time_in >= sub_df[i].time_out

\* the table is built from a stream in which a player was checked in by an
\* overtime play at the overtime's max_period_time and a substitution of the
\* fourth period closed an interval
C19_Witness ==
    /\ pc = "assign"
    /\ \E i \in 1..Len(pbp_df) :
        /\ pbp_df[i].period = 5
        /\ pbp_df[i].eventmsgtype <= 5
        /\ ~In(pbp_df[i].player1_id, before[i].home)
        /\ \E k \in 1..Len(sub_df) :
            /\ sub_df[k].player_id = pbp_df[i].player1_id
            /\ sub_df[k].time_in = 300
            /\ sub_df[k].time_out = 0
    /\ \E i \in 1..Len(pbp_df) :
        /\ pbp_df[i].period = 4
        /\ pbp_df[i].eventmsgtype = 8
        /\ pbp_df[i].game_time_remaining = 300
        /\ In(pbp_df[i].player1_id, before[i].home)

\* C20: on streams whose substitutions carry the tag of the roster team of
\* both players, after every processed event a roster player is in an
\* on-court list exactly when the player's stored time_in is not None, the
\* lists hold players of their own roster only and share nobody, and the
\* period-end loop never raises on a missing check-in.
C20_OnCourtIffCheckedIn ==
    ValidTags =>
        /\ error.kind # "TypeError"
        /\ pc = "events" =>
            /\ \A p \in Players :
                (In(p, home_on_court) \/ In(p, visitor_on_court))
                    <=> time_on_court[p].time_in # NoTime
            /\ Range(home_on_court) \subseteq Range(home_roster)
            /\ Range(visitor_on_court) \subseteq Range(visitor_roster)
            /\ Range(home_on_court) \cap Range(visitor_on_court) = {}

\* five home players are on court after a correctly tagged substitution
\* took player 1 off and brought player 6 on
C20_Witness ==
    /\ pc = "events"
    /\ ValidTags
    /\ pbp_df # <<>>
    /\ LastRow.eventmsgtype = 8
    /\ LastRow.player1_id = 1
    /\ LastRow.player2_id = 6
    /\ In(1, before[Len(pbp_df)].home)
    /\ Range(home_on_court) = {2, 3, 4, 5, 6}
    /\ time_on_court[1].time_in = NoTime
    /\ time_on_court[6].time_in = Since(LastRow.game_time_remaining)

====
